---------------------------- MODULE Spec2Model ----------------------------
(***************************************************************************)
(* gournal: a flat-file blog.  Articles are JSON files <Dir>/<slug>.json;  *)
(* HTTP handlers create, list, show, edit and update them.                 *)
(*                                                                         *)
(* Strings are sequences of one-character strings.  Three "characters"     *)
(* stand for things a TLA+ string literal cannot hold:                     *)
(*   KelvinSign  U+212A, a non-ASCII letter whose lower case is ASCII "k"  *)
(*   BadByte     a byte that is not valid UTF-8 (e.g. 0xFF)                *)
(*   ReplChar    U+FFFD, the Unicode replacement character                 *)
(***************************************************************************)
EXTENDS Naturals, Sequences, FiniteSets, TLC

VARIABLES
    files,          \* the store directory: file stem -> NoFile or [data, mtime]
    now,            \* the clock file modification times are stamped from
    dirMode,        \* the permissions of the store directory
    lastReq,        \* the request the last handler served
    resp,           \* the response it wrote
    lastSave,       \* file stem -> Title and Body handed to the last successful Save
    pc,             \* per concurrent request: position inside Save
    art,            \* per concurrent request: the Article being saved
    title,          \* input of a Slugify call
    slug            \* its result

vars == <<files, now, dirMode, lastReq, resp, lastSave,
          pc, art, title, slug>>

(***************************************************************************)
(* Bounds                                                                  *)
(***************************************************************************)
MaxTitleLen == 4

(***************************************************************************)
(* Characters and strings                                                  *)
(***************************************************************************)
KelvinSign == "U+212A"
BadByte    == "0xFF"
ReplChar   == "U+FFFD"

UpperLetters == <<"A","B","C","D","E","F","G","H","I","J","K","L","M",
                  "N","O","P","Q","R","S","T","U","V","W","X","Y","Z">>
LowerLetters == <<"a","b","c","d","e","f","g","h","i","j","k","l","m",
                  "n","o","p","q","r","s","t","u","v","w","x","y","z">>
Digits == {"0","1","2","3","4","5","6","7","8","9"}

Range(f) == {f[i] : i \in DOMAIN f}
UpperSet == Range(UpperLetters)

RECURSIVE IndexOf(_, _, _)
IndexOf(seq, c, i) ==
    IF i > Len(seq) THEN 0
    ELSE IF seq[i] = c THEN i ELSE IndexOf(seq, c, i + 1)

\* unicode.ToLower on one rune: ASCII upper case, and the Kelvin sign, whose
\* lower case is the ASCII letter k.
LowerRune(c) ==
    IF c \in UpperSet THEN LowerLetters[IndexOf(UpperLetters, c, 1)]
    ELSE IF c = KelvinSign THEN "k"
    ELSE c

\* strings.ToLower
ToLower(s) == [i \in 1..Len(s) |-> LowerRune(s[i])]

\* the class [a-z0-9 -] of the first regular expression
SlugClass == Range(LowerLetters) \cup Digits \cup {" ", "-"}

\* regexp.MustCompile("[^a-z0-9 -]").ReplaceAllString(s, "")
StripOthers(s) == SelectSeq(s, LAMBDA c : c \in SlugClass)

RECURSIVE DropWhile(_, _)
DropWhile(s, c) ==
    IF s # <<>> /\ Head(s) = c THEN DropWhile(Tail(s), c) ELSE s

\* regexp.MustCompile(c+).ReplaceAllString(s, "-"): every maximal run of c
\* becomes one hyphen
RECURSIVE ReplaceRuns(_, _)
ReplaceRuns(s, c) ==
    IF s = <<>> THEN <<>>
    ELSE IF Head(s) = c THEN <<"-">> \o ReplaceRuns(DropWhile(s, c), c)
    ELSE <<Head(s)>> \o ReplaceRuns(Tail(s), c)

RECURSIVE TrimLeft(_, _)
TrimLeft(s, cutset) ==
    IF s # <<>> /\ Head(s) \in cutset THEN TrimLeft(Tail(s), cutset) ELSE s

RECURSIVE TrimRight(_, _)
TrimRight(s, cutset) ==
    IF s # <<>> /\ s[Len(s)] \in cutset
    THEN TrimRight(SubSeq(s, 1, Len(s) - 1), cutset) ELSE s

\* strings.Trim
Trim(s, cutset) == TrimRight(TrimLeft(s, cutset), cutset)

\* A slip that forgets the "-+" pass.
SlugifyNoHyphenPass(t) ==
    Trim(ReplaceRuns(StripOthers(ToLower(t)), " "), {" ", "-"})

Slugify(t) ==
    LET s1 == ToLower(t)
        s2 == StripOthers(s1)
        s3 == ReplaceRuns(s2, " ")
        s4 == ReplaceRuns(s3, "-")
    IN  Trim(s4, {" ", "-"})


(***************************************************************************)
(* encoding/json, as far as an Article (three string fields) needs it      *)
(***************************************************************************)
Quote     == "\""
Backslash == "\\"

Article(t, b, s) == [Title |-> t, Body |-> b, Slug |-> s]
NilArticle == Article(<<>>, <<>>, <<>>)

RECURSIVE Concat(_)
Concat(ss) == IF ss = <<>> THEN <<>> ELSE Head(ss) \o Concat(Tail(ss))

\* What the encoder writes for one rune of a string: quote and backslash
\* are escaped, <, > and & are written as \u00XX, and a byte that is not
\* valid UTF-8 is written as the escape of U+FFFD.
EscapeRune(c) ==
    CASE c = Quote     -> <<Backslash, Quote>>
      [] c = Backslash -> <<Backslash, Backslash>>
      [] c = "<"       -> <<Backslash, "u", "0", "0", "3", "c">>
      [] c = ">"       -> <<Backslash, "u", "0", "0", "3", "e">>
      [] c = "&"       -> <<Backslash, "u", "0", "0", "2", "6">>
      [] c = BadByte   -> <<Backslash, "u", "f", "f", "f", "d">>
      [] OTHER         -> <<c>>

EncodeString(s) ==
    <<Quote>> \o Concat([i \in 1..Len(s) |-> EscapeRune(s[i])]) \o <<Quote>>

KeyTitle == <<"T", "i", "t", "l", "e">>
KeyBody  == <<"B", "o", "d", "y">>
KeySlug  == <<"S", "l", "u", "g">>

\* json.Marshal(a) for a *Article: {"Title":"..","Body":"..","Slug":".."}
Marshal(a) ==
    <<"{">> \o EncodeString(KeyTitle) \o <<":">> \o EncodeString(a.Title)
    \o <<",">> \o EncodeString(KeyBody) \o <<":">> \o EncodeString(a.Body)
    \o <<",">> \o EncodeString(KeySlug) \o <<":">> \o EncodeString(a.Slug)
    \o <<"}">>

WhiteSpace == {" ", "\t", "\n", "\r"}

RECURSIVE SkipWS(_, _)
SkipWS(d, i) ==
    IF i <= Len(d) /\ d[i] \in WhiteSpace THEN SkipWS(d, i + 1) ELSE i

\* the rune a \uXXXX escape stands for ("" for one outside this table)
UnicodeEscape(h) ==
    CASE h = <<"f", "f", "f", "d">> -> ReplChar
      [] h = <<"0", "0", "3", "c">> -> "<"
      [] h = <<"0", "0", "3", "e">> -> ">"
      [] h = <<"0", "0", "2", "6">> -> "&"
      [] h = <<"2", "1", "2", "a">> -> KelvinSign
      [] OTHER -> ""

ParseFail == [ok |-> FALSE, val |-> <<>>, next |-> 0]

\* The decoder inside a string literal, from position i (after the opening
\* quote) on; acc is what was decoded so far.
RECURSIVE ScanString(_, _, _)
ScanString(d, i, acc) ==
    IF i > Len(d) THEN ParseFail
    ELSE IF d[i] = Quote THEN [ok |-> TRUE, val |-> acc, next |-> i + 1]
    ELSE IF d[i] = Backslash THEN
        IF i + 1 > Len(d) THEN ParseFail
        ELSE IF d[i + 1] \in {Quote, Backslash}
            THEN ScanString(d, i + 2, Append(acc, d[i + 1]))
        ELSE IF d[i + 1] = "u" /\ i + 5 <= Len(d)
                /\ UnicodeEscape(SubSeq(d, i + 2, i + 5)) # ""
            THEN ScanString(d, i + 6,
                            Append(acc, UnicodeEscape(SubSeq(d, i + 2, i + 5))))
        ELSE ParseFail
    ELSE IF d[i] = BadByte THEN ScanString(d, i + 1, Append(acc, ReplChar))
    ELSE ScanString(d, i + 1, Append(acc, d[i]))

ParseString(d, i) ==
    IF i <= Len(d) /\ d[i] = Quote THEN ScanString(d, i + 1, <<>>)
    ELSE ParseFail

\* The members of an object, from position i (after "{" or ",") on, as a
\* sequence of <<key, value>> pairs; only string values are supported.
RECURSIVE ParseMembers(_, _, _)
ParseMembers(d, i, acc) ==
    LET k  == ParseString(d, SkipWS(d, i))
        c  == SkipWS(d, k.next)
        v  == ParseString(d, SkipWS(d, c + 1))
        e  == SkipWS(d, v.next)
    IN  IF ~k.ok \/ c > Len(d) \/ d[c] # ":" THEN ParseFail
        ELSE IF ~v.ok \/ e > Len(d) THEN ParseFail
        ELSE IF d[e] = "," THEN ParseMembers(d, e + 1, Append(acc, <<k.val, v.val>>))
        ELSE IF d[e] = "}"
            THEN [ok |-> TRUE, val |-> Append(acc, <<k.val, v.val>>), next |-> e + 1]
        ELSE ParseFail

ParseObject(d) ==
    LET o == SkipWS(d, 1)
        m == SkipWS(d, o + 1)
    IN  IF o > Len(d) \/ d[o] # "{" THEN ParseFail
        ELSE IF m <= Len(d) /\ d[m] = "}"
            THEN [ok |-> TRUE, val |-> <<>>, next |-> m + 1]
        ELSE ParseMembers(d, o + 1, <<>>)

\* The value of the last member whose key matches a field name (the decoder
\* matches keys case-insensitively); "" when the object has no such member.
RECURSIVE Field(_, _, _)
Field(members, key, dflt) ==
    IF members = <<>> THEN dflt
    ELSE Field(Tail(members), key,
               IF ToLower(Head(members)[1]) = ToLower(key)
               THEN Head(members)[2] ELSE dflt)

\* json.Unmarshal(b, &a): err is "" or "parse"
Unmarshal(d) ==
    LET o == ParseObject(d)
    IN  IF ~o.ok \/ SkipWS(d, o.next) <= Len(d)
        THEN [err |-> "parse", a |-> NilArticle]
        ELSE [err |-> "",
              a |-> Article(Field(o.val, KeyTitle, <<>>),
                            Field(o.val, KeyBody, <<>>),
                            Field(o.val, KeySlug, <<>>))]

(***************************************************************************)
(* Bounds and inputs of the server model                                   *)
(***************************************************************************)
MaxClock == 1

\* form values <<title, body>>: an empty title, two titles with the same
\* slug, a third slug, a body with a character the encoder escapes and a body
\* holding a byte that is not valid UTF-8
Forms == {<< <<>>, <<"x">> >>, << <<"a">>, <<"x">> >>,
          << <<"A">>, <<BadByte>> >>, << <<"b">>, <<Quote>> >>}
Titles == {f[1] : f \in Forms}
\* the file stems the store can hold
Stems == {Slugify(t) : t \in Titles}
\* values of the route variable {title}: the router matches it against
\* [^/]+, so it is never empty
SlugParams == Stems \ {<<>>}

(***************************************************************************)
(* The store directory                                                     *)
(***************************************************************************)
NoFile == [exists |-> FALSE, data |-> <<>>, mtime |-> 0]
File(d, t) == [exists |-> TRUE, data |-> d, mtime |-> t]

\* New
New(t, b) == Article(t, b, Slugify(t))

\* Load: ioutil.ReadFile, then json.Unmarshal
Load(s) ==
    IF ~files[s].exists THEN [err |-> "notexist", a |-> NilArticle]
    ELSE Unmarshal(files[s].data)

\* byte order of the characters a file name can hold
NameChars == <<"-", ".">> \o <<"0","1","2","3","4","5","6","7","8","9">>
             \o LowerLetters
DotJson == <<".", "j", "s", "o", "n">>

RECURSIVE SeqLess(_, _)
SeqLess(x, y) ==
    IF y = <<>> THEN FALSE
    ELSE IF x = <<>> THEN TRUE
    ELSE IF Head(x) = Head(y) THEN SeqLess(Tail(x), Tail(y))
    ELSE IndexOf(NameChars, Head(x), 1) < IndexOf(NameChars, Head(y), 1)

\* ioutil.ReadDir returns the directory's entries sorted by file name
RECURSIVE SortByName(_)
SortByName(S) ==
    IF S = {} THEN <<>>
    ELSE LET m == CHOOSE x \in S :
                    \A y \in S \ {x} : SeqLess(x \o DotJson, y \o DotJson)
         IN  <<m>> \o SortByName(S \ {m})

ReadDir == SortByName({s \in Stems : files[s].exists})

\* A comparison that puts the oldest file first.
LessOldestFirst(x, y) == files[x].mtime < files[y].mtime

\* byLatestDate.Less: f[i].ModTime().After(f[j].ModTime())
Less(x, y) == files[x].mtime > files[y].mtime

\* sort.Sort on a slice this short is an insertion sort: each element moves
\* left while it is Less than its left neighbour
RECURSIVE InsertSorted(_, _)
InsertSorted(sorted, x) ==
    IF sorted # <<>> /\ Less(x, sorted[Len(sorted)])
    THEN Append(InsertSorted(SubSeq(sorted, 1, Len(sorted) - 1), x),
                sorted[Len(sorted)])
    ELSE Append(sorted, x)

RECURSIVE SortByLatestDate(_)
SortByLatestDate(list) ==
    IF list = <<>> THEN <<>>
    ELSE InsertSorted(SortByLatestDate(SubSeq(list, 1, Len(list) - 1)),
                      list[Len(list)])

\* the loop of All: load each file, stop at the first error
RECURSIVE LoadEach(_, _)
LoadEach(list, res) ==
    IF list = <<>> THEN [err |-> "", res |-> res]
    ELSE LET l == Load(Head(list))
         IN  IF l.err # "" THEN [err |-> l.err, res |-> <<>>]
             ELSE LoadEach(Tail(list), Append(res, l.a))

\* whether ioutil.ReadDir(Dir) succeeds: the directory can be read
dirListable == dirMode # "--x"

\* All
All ==
    IF ~dirListable THEN [err |-> "readdir", res |-> <<>>]
    ELSE LoadEach(SortByLatestDate(ReadDir), <<>>)

\* the error of Article.Save ("" for none): WriteFile opens a file that
\* exists, and creates one only in a directory that can be written
SaveErr(a) ==
    IF dirMode = "--x" /\ ~files[a.Slug].exists THEN "permission" ELSE ""

\* ioutil.WriteFile: open with O_TRUNC, then write the data from offset 0
Truncated(s) == [files EXCEPT ![s] = File(<<>>, now)]

\* A write through a descriptor opened with O_APPEND.
OverlayAppending(d, old) == old \o d

\* the bytes of a file holding old after d is written at offset 0
Overlay(d, old) ==
    IF Len(old) > Len(d) THEN d \o SubSeq(old, Len(d) + 1, Len(old)) ELSE d
Written(f, s, d) == [f EXCEPT ![s] = File(Overlay(d, f[s].data), now)]

\* the store after a successful Article.Save
Saved(a) == Written(Truncated(a.Slug), a.Slug, Marshal(a))

(***************************************************************************)
(* Requests and responses                                                  *)
(***************************************************************************)
StatusOK                  == 200
StatusFound               == 302
StatusNotFound            == 404
StatusInternalServerError == 500

ArticlesPath == <<"/", "a", "r", "t", "i", "c", "l", "e", "s", "/">>

Req(op, s, t, b) == [op |-> op, slug |-> s, title |-> t, body |-> b]
NoReq == Req("none", <<>>, <<>>, <<>>)

ErrorPart(msg) == [kind |-> "error", name |-> msg, data |-> <<>>]
\* renderTemplate: the named template filled with the data
renderTemplate(tmpl, data) == [kind |-> "page", name |-> tmpl, data |-> data]

Resp(status, loc, body) == [status |-> status, location |-> loc, body |-> body]
NoResp == Resp(0, <<>>, <<>>)
\* http.Error
Error(msg, code) == Resp(code, <<>>, <<ErrorPart(msg)>>)
\* http.NotFound
NotFound == Error("404 page not found", StatusNotFound)
\* http.Redirect
Redirect(url, code) == Resp(code, url, <<>>)

NoSave == [saved |-> FALSE, Title |-> <<>>, Body |-> <<>>]
Recorded(a) == [lastSave EXCEPT ![a.Slug] =
                    [saved |-> TRUE, Title |-> a.Title, Body |-> a.Body]]

Procs == {1, 2}

Init ==
    /\ files = [s \in Stems |-> NoFile]
    /\ now = 0
    /\ dirMode = "rwx"
    /\ lastReq = NoReq
    /\ resp = NoResp
    /\ lastSave = [s \in Stems |-> NoSave]
    /\ pc = [p \in Procs |-> "idle"]
    /\ art = [p \in Procs |-> NilArticle]
    /\ title = <<>>
    /\ slug = <<>>

\* HomeHandler: http.Error on a failed listing does not end the handler; the
\* home template is rendered after it
HomeResp ==
    LET r == All
    IN  IF r.err # ""
        THEN Resp(StatusInternalServerError, <<>>,
                  <<ErrorPart(r.err), renderTemplate("home", r.res)>>)
        ELSE Resp(StatusOK, <<>>, <<renderTemplate("home", r.res)>>)

HomeHandler ==
    /\ lastReq' = Req("home", <<>>, <<>>, <<>>)
    /\ resp' = HomeResp
    /\ UNCHANGED <<files, now, dirMode, lastSave, pc, art,
                   title, slug>>

NewArticleHandler ==
    /\ lastReq' = Req("new", <<>>, <<>>, <<>>)
    /\ resp' = Resp(StatusOK, <<>>, <<renderTemplate("new_article", <<>>)>>)
    /\ UNCHANGED <<files, now, dirMode, lastSave, pc, art,
                   title, slug>>

CreateArticleHandler(t, b) ==
    \E a \in {New(t, b)} :
        /\ lastReq' = Req("create", <<>>, t, b)
        /\ IF SaveErr(a) # ""
           THEN /\ resp' = Error(SaveErr(a), StatusInternalServerError)
                /\ UNCHANGED <<files, lastSave>>
           ELSE /\ files' = Saved(a)
                /\ lastSave' = Recorded(a)
                /\ resp' = Redirect(ArticlesPath \o a.Slug, StatusFound)
        /\ UNCHANGED <<now, dirMode, pc, art, title, slug>>

ShowResp(s) ==
    LET l == Load(s)
    IN  IF l.err # "" THEN NotFound
        ELSE Resp(StatusOK, <<>>, <<renderTemplate("show_article", <<l.a>>)>>)

\* A handler that saves the article it shows.
ShowArticleHandlerSaving(s) ==
    /\ lastReq' = Req("show", s, <<>>, <<>>)
    /\ resp' = ShowResp(s)
    /\ files' = IF Load(s).err = "" THEN Saved(Load(s).a) ELSE files
    /\ UNCHANGED <<now, dirMode, lastSave, pc, art, title, slug>>

ShowArticleHandler(s) ==
    /\ lastReq' = Req("show", s, <<>>, <<>>)
    /\ resp' = ShowResp(s)
    /\ UNCHANGED <<files, now, dirMode, lastSave, pc, art,
                   title, slug>>

EditResp(s) ==
    LET l == Load(s)
    IN  IF l.err # "" THEN NotFound
        ELSE Resp(StatusOK, <<>>, <<renderTemplate("edit_article", <<l.a>>)>>)

EditArticleHandler(s) ==
    /\ lastReq' = Req("edit", s, <<>>, <<>>)
    /\ resp' = EditResp(s)
    /\ UNCHANGED <<files, now, dirMode, lastSave, pc, art,
                   title, slug>>

UpdateArticleHandler(s, t, b) ==
    \E l \in {Load(s)} : \E a \in {Article(t, b, l.a.Slug)} :
        /\ lastReq' = Req("update", s, t, b)
        /\ IF l.err # ""
           THEN /\ resp' = Error(l.err, StatusInternalServerError)
                /\ UNCHANGED <<files, lastSave>>
           ELSE IF SaveErr(a) # ""
           THEN /\ resp' = Error(SaveErr(a), StatusInternalServerError)
                /\ UNCHANGED <<files, lastSave>>
           ELSE /\ files' = Saved(a)
                /\ lastSave' = Recorded(a)
                /\ resp' = Redirect(ArticlesPath \o a.Slug, StatusFound)
        /\ UNCHANGED <<now, dirMode, pc, art, title, slug>>

(***************************************************************************)
(* The environment: the clock, and the store's permissions                 *)
(***************************************************************************)
\* The clock that stamps modification times moves between requests or not:
\* two writes with no tick between them get the same ModTime.
Tick ==
    /\ now < MaxClock
    /\ now' = now + 1
    /\ UNCHANGED <<files, dirMode, lastReq, resp, lastSave, pc, art, title,
                   slug>>

\* chmod on the store directory: all permissions, or search only (its files
\* can be opened, but it can be neither listed nor given a new file)
Chmod(m) ==
    /\ m # dirMode
    /\ dirMode' = m
    /\ lastReq' = NoReq
    /\ resp' = NoResp
    /\ UNCHANGED <<files, now, lastSave, pc, art, title, slug>>

Create == \E f \in Forms : CreateArticleHandler(f[1], f[2])
Show   == \E s \in SlugParams : ShowArticleHandler(s)
Edit   == \E s \in SlugParams : EditArticleHandler(s)
Update == \E s \in SlugParams, f \in Forms : UpdateArticleHandler(s, f[1], f[2])
Env    == \E m \in {"rwx", "--x"} : Chmod(m)

Next ==
    \/ HomeHandler
    \/ NewArticleHandler
    \/ Create
    \/ Show
    \/ Edit
    \/ Update
    \/ Tick
    \/ Env

\* requests served one at a time
Spec == Init /\ [][Next]_vars

(***************************************************************************)
(* Slugify on its own: every title up to MaxTitleLen over an alphabet with *)
(* one character of each kind, and the titles the documentation names      *)
(***************************************************************************)
SlugAlphabet == {"a", "B", "7", " ", "-", "!", KelvinSign, BadByte}
HelloWorld == <<"H", "e", "l", "l", "o", ",", " ", "W", "o", "r", "l", "d", "!">>
ASpacesB   == <<"a", " ", " ", " ", "b">>
SlugInputs ==
    UNION {[1..n -> SlugAlphabet] : n \in 0..MaxTitleLen} \cup {HelloWorld, ASpacesB}

\* the value of slug before Slugify has returned
NotComputed == <<"?">>

InitSlug ==
    /\ files = [s \in Stems |-> NoFile]
    /\ now = 0
    /\ dirMode = "rwx"
    /\ lastReq = NoReq
    /\ resp = NoResp
    /\ lastSave = [s \in Stems |-> NoSave]
    /\ pc = [p \in Procs |-> "idle"]
    /\ art = [p \in Procs |-> NilArticle]
    /\ title \in SlugInputs
    /\ slug = NotComputed

SlugifyCall ==
    /\ slug = NotComputed
    /\ slug' = Slugify(title)
    /\ UNCHANGED <<files, now, dirMode, lastReq, resp, lastSave, pc, art, title>>

NextSlug == SlugifyCall

SpecSlug == InitSlug /\ [][NextSlug]_vars

(***************************************************************************)
(* Concurrent requests: the server runs each handler on its own goroutine  *)
(* and nothing locks the store.  ioutil.WriteFile is two steps, the open   *)
(* that truncates and the write; reads of one file and the listing are     *)
(* single steps.  The writers all name the same slug.                      *)
(***************************************************************************)
ConcSlug  == <<"a">>
ConcForms == {f \in Forms : Slugify(f[1]) = ConcSlug}

\* CreateArticleHandler up to the call of Save
BeginCreate(p, t, b) ==
    /\ pc[p] = "idle"
    /\ art' = [art EXCEPT ![p] = New(t, b)]
    /\ pc' = [pc EXCEPT ![p] = "open"]
    /\ UNCHANGED <<files, now, dirMode, lastReq, resp, lastSave, title, slug>>

\* UpdateArticleHandler up to the call of Save; a failed Load ends it
BeginUpdate(p, s, t, b) ==
    \E l \in {Load(s)} :
        /\ pc[p] = "idle"
        /\ IF l.err # ""
           THEN UNCHANGED <<art, pc>>
           ELSE /\ art' = [art EXCEPT ![p] = Article(t, b, l.a.Slug)]
                /\ pc' = [pc EXCEPT ![p] = "open"]
        /\ UNCHANGED <<files, now, dirMode, lastReq, resp, lastSave, title, slug>>

\* WriteFile: os.OpenFile(name, O_WRONLY|O_CREATE|O_TRUNC, perm)
SaveOpen(p) ==
    /\ pc[p] = "open"
    /\ files' = Truncated(art[p].Slug)
    /\ pc' = [pc EXCEPT ![p] = "write"]
    /\ UNCHANGED <<now, dirMode, lastReq, resp, lastSave, art, title, slug>>

\* WriteFile: f.Write(data), at this descriptor's offset 0
SaveWrite(p) ==
    /\ pc[p] = "write"
    /\ files' = Written(files, art[p].Slug, Marshal(art[p]))
    /\ lastSave' = Recorded(art[p])
    /\ pc' = [pc EXCEPT ![p] = "done"]
    /\ UNCHANGED <<now, dirMode, lastReq, resp, art, title, slug>>

\* the handler redirects and returns
Return(p) ==
    /\ pc[p] = "done"
    /\ pc' = [pc EXCEPT ![p] = "idle"]
    /\ UNCHANGED <<files, now, dirMode, lastReq, resp, lastSave, art, title, slug>>

ConcCreate == \E p \in Procs, f \in ConcForms : BeginCreate(p, f[1], f[2])
ConcUpdate == \E p \in Procs, f \in ConcForms : BeginUpdate(p, ConcSlug, f[1], f[2])
ConcOpen   == \E p \in Procs : SaveOpen(p)
ConcWrite  == \E p \in Procs : SaveWrite(p)
ConcReturn == \E p \in Procs : Return(p)
ConcShow   == ShowArticleHandler(ConcSlug)

NextConc ==
    \/ ConcCreate
    \/ ConcUpdate
    \/ ConcOpen
    \/ ConcWrite
    \/ ConcReturn
    \/ ConcShow
    \/ HomeHandler

SpecConc == Init /\ [][NextConc]_vars

(***************************************************************************)
(* Properties                                                              *)
(***************************************************************************)
Existing == {s \in Stems : files[s].exists}
Succeeded == resp.status = StatusFound
\* the file the last successful create or update wrote
WrittenStem ==
    IF lastReq.op = "create" THEN Slugify(lastReq.title) ELSE lastReq.slug

\* C1: after a create (New, then Save) that succeeded, Load of the article's
\* slug succeeds and returns the Title, Body and Slug of the article saved.
C1_RoundTrip ==
    (lastReq.op = "create" /\ Succeeded) =>
        LET l == Load(Slugify(lastReq.title))
        IN  /\ l.err = ""
            /\ l.a = New(lastReq.title, lastReq.body)

\* All succeeded, with one article per file, no file with a later
\* modification time after one with an earlier
ListedByTime(r) ==
    /\ r.err = ""
    /\ Len(r.res) = Cardinality(Existing)
    /\ {r.res[i].Slug : i \in 1..Len(r.res)} = Existing
    /\ \A i, j \in 1..Len(r.res) :
          i < j => files[r.res[i].Slug].mtime >= files[r.res[j].Slug].mtime

\* C2 as stated: All returns one article per file, latest modification
\* first, and the article a create or update has just written is the first.
C2_JustWrittenFirst ==
    dirListable =>
        /\ ListedByTime(All)
        /\ (lastReq.op \in {"create", "update"} /\ Succeeded)
              => All.res[1].Slug = WrittenStem

\* C2 amended: All returns one article per file ordered by modification
\* time, latest first; the article just written is first when every other
\* file's modification time is strictly earlier, and is otherwise preceded
\* only by files with the same modification time.
C2_ListedByModTime ==
    dirListable =>
        /\ ListedByTime(All)
        /\ (lastReq.op \in {"create", "update"} /\ Succeeded) =>
              /\ (\A s \in Existing \ {WrittenStem} :
                      files[s].mtime < files[WrittenStem].mtime)
                    => All.res[1].Slug = WrittenStem
              /\ \A i \in 1..Len(All.res) :
                    files[All.res[i].Slug].mtime < files[WrittenStem].mtime
                    => \E j \in 1..(i - 1) : All.res[j].Slug = WrittenStem

\* three files, listed after an update of one that is not the first by name
\* has given it the latest modification time
C2_Witness ==
    /\ lastReq.op = "update" /\ Succeeded
    /\ Existing = Stems
    /\ \A s \in Stems \ {lastReq.slug} : files[s].mtime < files[lastReq.slug].mtime
    /\ ReadDir[1] # lastReq.slug
    /\ All.err = ""
    /\ All.res[1].Slug = lastReq.slug
    /\ All.res[1].Title = lastReq.title

\* C3: a PUT on a slug that has a file creates and removes no file, leaves
\* the file holding the Title and Body of the form and the Slug it had, and
\* redirects to /articles/<slug>.
C3_UpdateKeepsSlug ==
    [][\A s \in SlugParams, f \in Forms :
          (UpdateArticleHandler(s, f[1], f[2]) /\ files[s].exists) =>
              /\ \A x \in Stems : files'[x].exists = files[x].exists
              /\ Unmarshal(files'[s].data).err = ""
              /\ Unmarshal(files'[s].data).a = Article(f[1], f[2], s)
              /\ resp' = Redirect(ArticlesPath \o s, StatusFound)]_vars

\* C4: a GET of an article, a GET of its edit form and a PUT that name a
\* slug with no file are answered 404 and leave the store as it was.
C4_MissingIs404 ==
    [][\A s \in SlugParams :
          (/\ ~files[s].exists
           /\ \/ ShowArticleHandler(s)
              \/ EditArticleHandler(s)
              \/ \E f \in Forms : UpdateArticleHandler(s, f[1], f[2])) =>
              /\ resp'.status = StatusNotFound
              /\ files' = files]_vars

\* C5: a POST either redirects (302) to /articles/<slug> having written the
\* file <Slugify(title)>.json with that Title, Body and Slug, or answers 500
\* without a redirect because the save failed; in a writable store it is the
\* former, for every title, the empty one included.
C5_CreateWritesForm ==
    lastReq.op = "create" =>
        /\ dirMode = "rwx" => Succeeded
        /\ IF Succeeded
           THEN /\ resp.location = ArticlesPath \o Slugify(lastReq.title)
                /\ Load(Slugify(lastReq.title)).err = ""
                /\ Load(Slugify(lastReq.title)).a.Title = lastReq.title
                /\ Load(Slugify(lastReq.title)).a.Body = lastReq.body
                /\ Load(Slugify(lastReq.title)).a.Slug = Slugify(lastReq.title)
           ELSE /\ resp.status = StatusInternalServerError
                /\ resp.location = <<>>
                /\ dirMode = "--x"

\* the characters of [a-z0-9], and of [A-Za-z0-9]
AlnumLower == Range(LowerLetters) \cup Digits
Alnum == UpperSet \cup AlnumLower
Separators == {" ", "-"}

\* The slug a title should give when the characters of kept are the ones
\* kept: they appear lower-cased and in order, with one hyphen between two
\* of them exactly when a space or hyphen stands somewhere between them in
\* the title; everything else is dropped.
RECURSIVE JoinKept(_, _, _, _)
JoinKept(t, kept, acc, pending) ==
    IF t = <<>> THEN acc
    ELSE IF Head(t) \in kept
        THEN JoinKept(Tail(t), kept,
                      acc \o (IF pending /\ acc # <<>> THEN <<"-">> ELSE <<>>)
                          \o <<LowerRune(Head(t))>>,
                      FALSE)
    ELSE IF Head(t) \in Separators THEN JoinKept(Tail(t), kept, acc, TRUE)
    ELSE JoinKept(Tail(t), kept, acc, pending)

\* only a-z, 0-9 and "-"; no space; no two hyphens in a row; no hyphen first
\* or last
WellFormedSlug(g) ==
    /\ \A i \in 1..Len(g) : g[i] \in AlnumLower \cup {"-"}
    /\ \A i \in 1..(Len(g) - 1) : ~(g[i] = "-" /\ g[i + 1] = "-")
    /\ g # <<>> => (g[1] # "-" /\ g[Len(g)] # "-")

\* C6 as stated: Slugify returns a well-formed slug in which the characters
\* of [A-Za-z0-9] of the title are kept, runs of spaces and hyphens between
\* them become one hyphen, and a title with no character of [A-Za-z0-9]
\* gives the empty slug.
C6_SlugOfAlnum ==
    slug # NotComputed =>
        /\ WellFormedSlug(slug)
        /\ slug = JoinKept(title, Alnum, <<>>, FALSE)
        /\ (\A i \in 1..Len(title) : title[i] \notin Alnum) => slug = <<>>
        /\ title = HelloWorld => slug = <<"h","e","l","l","o","-","w","o","r","l","d">>
        /\ title = ASpacesB => slug = <<"a", "-", "b">>

\* the characters whose lower case is in [a-z0-9]: [A-Za-z0-9], and letters
\* outside ASCII such as the Kelvin sign
KeptBySlugify == {c \in Alnum \cup SlugAlphabet : LowerRune(c) \in AlnumLower}

\* C6 amended: Slugify returns a well-formed slug in which the characters
\* whose lower case is in [a-z0-9] are kept, lower-cased (these include
\* non-ASCII letters such as U+212A, whose lower case is k), runs of spaces
\* and hyphens between them become one hyphen, and a title with no such
\* character gives the empty slug.
C6_SlugOfLowered ==
    slug # NotComputed =>
        /\ WellFormedSlug(slug)
        /\ slug = JoinKept(title, KeptBySlugify, <<>>, FALSE)
        /\ (\A i \in 1..Len(title) : title[i] \notin KeptBySlugify) => slug = <<>>
        /\ title = HelloWorld => slug = <<"h","e","l","l","o","-","w","o","r","l","d">>
        /\ title = ASpacesB => slug = <<"a", "-", "b">>

\* a title whose kept characters have a space and a hyphen between them
C6_Witness ==
    /\ title = <<"B", " ", "-", "a">>
    /\ slug = <<"b", "-", "a">>

\* C7: every file holds the Title and Body of the last successful save to
\* its slug (there is one file per slug: the store is keyed by file name),
\* and a create whose slug already has a file succeeds, adds no file and
\* replaces the content.
C7_LastWriteWins ==
    /\ \A s \in Stems :
          /\ files[s].exists = lastSave[s].saved
          /\ files[s].exists =>
                /\ Load(s).err = ""
                /\ Load(s).a.Title = lastSave[s].Title
                /\ Load(s).a.Body = lastSave[s].Body
    /\ (lastReq.op = "create" /\ Succeeded) =>
          /\ lastSave[WrittenStem].Title = lastReq.title
          /\ lastSave[WrittenStem].Body = lastReq.body

\* C8: when All fails, GET / answers 500 with the error and nothing else:
\* the home page is not rendered.
C8_HomeFailsFast ==
    (lastReq.op = "home" /\ All.err # "") =>
        /\ All.res = <<>>
        /\ resp = Error(All.err, StatusInternalServerError)

\* the response the request r, a GET, is given in the current state
GetResp(r) ==
    CASE r.op = "home" -> HomeResp
      [] r.op = "new"  -> Resp(StatusOK, <<>>, <<renderTemplate("new_article", <<>>)>>)
      [] r.op = "show" -> ShowResp(r.slug)
      [] r.op = "edit" -> EditResp(r.slug)
      [] OTHER -> NoResp

GetOps == {"home", "new", "show", "edit"}

\* C9: a GET handler changes neither the files nor their modification
\* times, and as long as nothing but GETs are served, the request served
\* last would be answered again as it was.
C9_GetsChangeNothing ==
    /\ [][(HomeHandler \/ NewArticleHandler \/ Show \/ Edit) =>
            (files' = files /\ lastSave' = lastSave)]_vars
    /\ [](lastReq.op \in GetOps => resp = GetResp(lastReq))

\* the home page listing two or more articles
C9_Witness ==
    /\ lastReq.op = "home"
    /\ resp.status = StatusOK
    /\ Len(resp.body[1].data) >= 2

\* the bytes x followed by what of y lies beyond the length of x
ThenTailOf(x, y) == x \o SubSeq(y, Len(x) + 1, Len(y))

BothSaved ==
    /\ \A p \in Procs : pc[p] = "done"
    /\ art[1].Slug = art[2].Slug
    /\ art[1] # art[2]

\* C10 as stated: while a file is truncated and not yet written, a read of
\* it fails to parse and a listing fails, and when two saves to one slug have both
\* finished the file holds what one of them wrote.
C10_OneSaveWins ==
    /\ [](BothSaved =>
            files[art[1].Slug].data \in {Marshal(art[1]), Marshal(art[2])})
    /\ [][\A s \in SlugParams :
            (files[s].exists /\ files[s].data = <<>>) =>
                /\ Load(s).err = "parse"
                /\ ShowArticleHandler(s) => resp' = NotFound
                /\ HomeHandler => resp'.status = StatusInternalServerError]_vars

\* C10 amended: while a file is truncated and not yet written, a read of
\* it fails to parse and a listing fails, and when two saves to one slug have both
\* finished the file holds what one of them wrote, or, when both had
\* truncated before either wrote and the later write was the shorter, the
\* later write followed by the tail of the earlier, which does not parse.
C10_OneSaveWinsOrMix ==
    /\ [](BothSaved =>
            \/ files[art[1].Slug].data \in {Marshal(art[1]), Marshal(art[2])}
            \/ /\ files[art[1].Slug].data \in
                      {ThenTailOf(Marshal(art[1]), Marshal(art[2])),
                       ThenTailOf(Marshal(art[2]), Marshal(art[1]))}
               /\ Load(art[1].Slug).err = "parse")
    /\ [][\A s \in SlugParams :
            (files[s].exists /\ files[s].data = <<>>) =>
                /\ Load(s).err = "parse"
                /\ ShowArticleHandler(s) => resp' = NotFound
                /\ HomeHandler => resp'.status = StatusInternalServerError]_vars

\* both saves have finished, the file holds a mix of the two and a reader
\* has just been refused it
C10_Witness ==
    /\ BothSaved
    /\ files[art[1].Slug].data \notin {Marshal(art[1]), Marshal(art[2])}
    /\ lastReq.op = "show" /\ lastReq.slug = art[1].Slug
    /\ resp = NotFound

(***************************************************************************)
(* What does hold of C1, C3, C5 and C7: each is true once a Title or Body  *)
(* is read as json.Marshal coerces it, every byte that is not valid UTF-8  *)
(* replaced by U+FFFD.                                                     *)
(***************************************************************************)
ToValidUTF8(s) == [i \in 1..Len(s) |-> IF s[i] = BadByte THEN ReplChar ELSE s[i]]

\* C1, as far as it holds: Load after a successful create returns the
\* Title and Body coerced to valid UTF-8, and the Slug.
C1_RoundTripCoerced ==
    (lastReq.op = "create" /\ Succeeded) =>
        LET l == Load(Slugify(lastReq.title))
        IN  /\ l.err = ""
            /\ l.a = Article(ToValidUTF8(lastReq.title), ToValidUTF8(lastReq.body),
                             Slugify(lastReq.title))

\* C3, as far as it holds: a PUT on a slug that has a file creates and
\* removes no file, leaves the file holding the form's Title and Body coerced
\* to valid UTF-8 and the Slug it had, and redirects to /articles/<slug>.
C3_UpdateKeepsSlugCoerced ==
    [][\A s \in SlugParams, f \in Forms :
          (UpdateArticleHandler(s, f[1], f[2]) /\ files[s].exists) =>
              /\ \A x \in Stems : files'[x].exists = files[x].exists
              /\ Unmarshal(files'[s].data).err = ""
              /\ Unmarshal(files'[s].data).a =
                    Article(ToValidUTF8(f[1]), ToValidUTF8(f[2]), s)
              /\ resp' = Redirect(ArticlesPath \o s, StatusFound)]_vars

\* C5, as far as it holds: C5 with the Title and Body coerced.
C5_CreateWritesFormCoerced ==
    lastReq.op = "create" =>
        /\ dirMode = "rwx" => Succeeded
        /\ IF Succeeded
           THEN /\ resp.location = ArticlesPath \o Slugify(lastReq.title)
                /\ Load(Slugify(lastReq.title)).err = ""
                /\ Load(Slugify(lastReq.title)).a =
                      Article(ToValidUTF8(lastReq.title), ToValidUTF8(lastReq.body),
                              Slugify(lastReq.title))
           ELSE /\ resp.status = StatusInternalServerError
                /\ resp.location = <<>>
                /\ dirMode = "--x"

\* C7, as far as it holds: C7 with the Title and Body coerced; and every
\* file holds the Slug it is named after.
C7_LastWriteWinsCoerced ==
    /\ \A s \in Stems :
          /\ files[s].exists = lastSave[s].saved
          /\ files[s].exists =>
                /\ Load(s).err = ""
                /\ Load(s).a = Article(ToValidUTF8(lastSave[s].Title),
                                       ToValidUTF8(lastSave[s].Body), s)
    /\ (lastReq.op = "create" /\ Succeeded) =>
          /\ lastSave[WrittenStem].Title = lastReq.title
          /\ lastSave[WrittenStem].Body = lastReq.body

=============================================================================
